---- MODULE Spec2Model ----
(***************************************************************************)
(* A model of configman (src/configman/__init__.py): the layer merge       *)
(* (_merge_layers and its helpers) and the load orchestrator with its      *)
(* process-wide registry of default configurations.                        *)
(*                                                                         *)
(* A generic tree node is a record [k, v, m]:                              *)
(*   k = "scalar"  : v = <<x>>            a scalar x                       *)
(*   k = "list"    : v = the elements     a Python list                    *)
(*   k = "missing" :                      dataclasses.MISSING              *)
(*   k = "none"    :                      None (only in typed objects)     *)
(*   k = "dict"    : m = key -> node      a Python dict                    *)
(* A layer (a dict[str, Any]) is a function from its keys to nodes.        *)
(* A dict is iterated in insertion order; the layers of the model are      *)
(* inserted in the order of KeyOrder.                                      *)
(***************************************************************************)
EXTENDS Integers, Sequences, FiniteSets, TLC

VARIABLES
    layers,     \* _merge_layers: the argument list (*layers)
    current,    \* _merge_layers: the accumulator `current`
    todo,       \* _merge_layers: the (node_path, node_value) pairs still to apply, per layer
    pc,         \* _merge_layers: "args", "fold", "done" or "error"; "api" outside it
    applied,    \* the last (node_path, node_value) pair applied, <<>> before the first
    raised,     \* the dotted path of the TypeError raised, <<>> when none
    register,   \* configman.register: the set of configclasses
    defaults,   \* configman.defaults: type -> default instance
    last,       \* the last call of the public API and what it returned or raised
    latest      \* per type, the config of the last load_config since reset() to hold one

mergeVars == <<layers, current, todo, pc, applied, raised>>
apiVars == <<register, defaults, last, latest>>
vars == <<layers, current, todo, pc, applied, raised, register, defaults, last, latest>>

-----------------------------------------------------------------------------
(* Bounds of the model.                                                    *)

MaxLayers == 3
MaxEntries == 5

KeyOrder == <<"a", "b", "c", "web", "alt", "name", "host">>
TopKeys == {"a"}
NestedKeys == {"b", "c"}
Scalars == {1, 2}

-----------------------------------------------------------------------------
(* Generic tree nodes.                                                     *)

EmptyMap == [x \in {} |-> x]
MISSING == [k |-> "missing", v |-> <<>>, m |-> EmptyMap]
None == [k |-> "none", v |-> <<>>, m |-> EmptyMap]
Scalar(x) == [k |-> "scalar", v |-> <<x>>, m |-> EmptyMap]
List(s) == [k |-> "list", v |-> s, m |-> EmptyMap]
Dict(f) == [k |-> "dict", v |-> <<>>, m |-> f]

IsDict(n) == n.k = "dict"
IsList(n) == n.k = "list"
IsMissing(n) == n.k = "missing"

\* The keys of a dict in iteration order.
KeysOf(d) == SelectSeq(KeyOrder, LAMBDA x : x \in DOMAIN d)

\* d with d[key] = value (a key is added or rebound).
Put(d, key, value) == [x \in (DOMAIN d) \cup {key} |-> IF x = key THEN value ELSE d[x]]

\* d with key deleted.
Del(d, key) == [x \in (DOMAIN d) \ {key} |-> d[x]]

-----------------------------------------------------------------------------
(* Paths.  A path is a non-empty sequence of keys.                         *)

RECURSIVE HasPath(_, _)
\* Whether walking path through the dicts of d ends at an entry.
HasPath(d, path) ==
    /\ Head(path) \in DOMAIN d
    /\ \/ Len(path) = 1
       \/ /\ IsDict(d[Head(path)])
          /\ HasPath(d[Head(path)].m, Tail(path))

RECURSIVE At(_, _)
\* The node at path (HasPath(d, path) holds).
At(d, path) ==
    IF Len(path) = 1 THEN d[Head(path)] ELSE At(d[Head(path)].m, Tail(path))

RECURSIVE NodeSet(_, _, _)
\* node[key] = value, for the (node, key) that ensure_path_prefix returned for path.
NodeSet(tree, path, value) ==
    IF Len(path) = 1
    THEN Put(tree, Head(path), value)
    ELSE Put(tree, Head(path), Dict(NodeSet(tree[Head(path)].m, Tail(path), value)))

\* node.get(key, MISSING), for the (node, key) that ensure_path_prefix returned for path.
NodeGet(tree, path) == IF HasPath(tree, path) THEN At(tree, path) ELSE MISSING

RECURSIVE copy(_)
\* tree.copy: a deep copy of a tree.
copy(tree) ==
    [x \in DOMAIN tree |-> IF IsDict(tree[x]) THEN Dict(copy(tree[x].m)) ELSE tree[x]]

RECURSIVE ensure_path_prefix(_, _)
\* tree.ensure_path_prefix: every prefix segment of path that is absent or not a
\* mapping is bound to a fresh empty mapping.  The tree after the call; the
\* (node, key) the code returns is read and written by NodeGet and NodeSet.
ensure_path_prefix(tree, path) ==
    IF Len(path) = 1
    THEN tree
    ELSE LET key == Head(path)
             child == IF key \in DOMAIN tree /\ IsDict(tree[key])
                      THEN tree[key].m
                      ELSE EmptyMap
         IN  Put(tree, key, Dict(ensure_path_prefix(child, Tail(path))))

-----------------------------------------------------------------------------
(* The layer merge.                                                        *)

NoError == [err |-> "none", path |-> <<>>]
TypeError(path) == [err |-> "TypeError", path |-> path]
ValueError == [err |-> "ValueError", path |-> <<>>]

RECURSIVE _visit_dict(_)
RECURSIVE VisitItems(_, _)

\* VisitItems with `if isinstance(value, dict) and value:`, an empty dict
\* yielded as a leaf.
VisitItems_EmptyLeaf(root, keys) ==
    IF keys = <<>>
    THEN <<>>
    ELSE LET key == Head(keys)
             value == root[key]
             sub == _visit_dict(value.m)
             here == IF IsDict(value) /\ value.m # EmptyMap
                     THEN [i \in 1..Len(sub) |->
                              [node_path |-> <<key>> \o sub[i].node_path,
                               node_value |-> sub[i].node_value]]
                     ELSE <<[node_path |-> <<key>>, node_value |-> value]>>
         IN  here \o VisitItems(root, Tail(keys))

\* The loop of _visit_dict over root.items(), from the keys still to visit.
VisitItems(root, keys) ==
    IF keys = <<>>
    THEN <<>>
    ELSE LET key == Head(keys)
             value == root[key]
             sub == _visit_dict(value.m)
             here == IF IsDict(value)
                     THEN [i \in 1..Len(sub) |->
                              [node_path |-> <<key>> \o sub[i].node_path,
                               node_value |-> sub[i].node_value]]
                     ELSE <<[node_path |-> <<key>>, node_value |-> value]>>
         IN  here \o VisitItems(root, Tail(keys))

\* _visit_dict: the (node_path, node_value) pairs it yields, in order.
_visit_dict(root) == VisitItems(root, KeysOf(root))

\* _merge_node_path without the isinstance(current_value, list) check: a list
\* replaces a non-list.
_merge_node_path_NoCheck(tree, path, new_value) ==
    LET t1 == ensure_path_prefix(tree, path)
        got == NodeGet(t1, path)
    IN  IF IsMissing(new_value)
        THEN [tree |-> t1, raised |-> NoError]
        ELSE IF IsList(new_value)
        THEN [tree |-> NodeSet(t1, path,
                               List((IF IsList(got) THEN got.v ELSE <<>>) \o new_value.v)),
              raised |-> NoError]
        ELSE [tree |-> NodeSet(t1, path, new_value), raised |-> NoError]

\* _merge_node_path with `del node[key]` for a marker: the marker unsets the
\* value.
_merge_node_path_Unset(tree, path, new_value) ==
    LET t1 == ensure_path_prefix(tree, path)
        got == NodeGet(t1, path)
        t2 == IF IsMissing(got) THEN NodeSet(t1, path, List(<<>>)) ELSE t1
        current_value == IF IsMissing(got) THEN List(<<>>) ELSE got
    IN  IF IsMissing(new_value)
        THEN [tree |-> NodeSet(t1, path, MISSING), raised |-> NoError]
        ELSE IF IsList(new_value)
        THEN IF ~IsList(current_value)
             THEN [tree |-> t2, raised |-> TypeError(path)]
             ELSE [tree |-> NodeSet(t2, path, List(current_value.v \o new_value.v)),
                   raised |-> NoError]
        ELSE [tree |-> NodeSet(t1, path, new_value), raised |-> NoError]

\* _merge_node_path with `node[key] = new_value` for a list too: the list
\* replaces the list.
_merge_node_path_Replace(tree, path, new_value) ==
    LET t1 == ensure_path_prefix(tree, path)
        got == NodeGet(t1, path)
        t2 == IF IsMissing(got) THEN NodeSet(t1, path, List(<<>>)) ELSE t1
        current_value == IF IsMissing(got) THEN List(<<>>) ELSE got
    IN  IF IsMissing(new_value)
        THEN [tree |-> t1, raised |-> NoError]
        ELSE IF IsList(new_value)
        THEN IF ~IsList(current_value)
             THEN [tree |-> t2, raised |-> TypeError(path)]
             ELSE [tree |-> NodeSet(t2, path, new_value), raised |-> NoError]
        ELSE [tree |-> NodeSet(t1, path, new_value), raised |-> NoError]

\* _merge_node_path: the tree after the call and the error it raised.
_merge_node_path(tree, path, new_value) ==
    LET t1 == ensure_path_prefix(tree, path)
        got == NodeGet(t1, path)
        t2 == IF IsMissing(got) THEN NodeSet(t1, path, List(<<>>)) ELSE t1
        current_value == IF IsMissing(got) THEN List(<<>>) ELSE got
    IN  IF IsMissing(new_value)
        THEN [tree |-> t1, raised |-> NoError]
        ELSE IF IsList(new_value)
        THEN IF ~IsList(current_value)
             THEN [tree |-> t2, raised |-> TypeError(path)]
             ELSE [tree |-> NodeSet(t2, path, List(current_value.v \o new_value.v)),
                   raised |-> NoError]
        ELSE [tree |-> NodeSet(t1, path, new_value), raised |-> NoError]

RECURSIVE _prune_missing_inplace(_)

\* _prune_missing_inplace without the recursion into the mappings.
_prune_missing_inplace_Shallow(d) ==
    [x \in {y \in DOMAIN d : ~IsMissing(d[y])} |-> d[x]]

\* _prune_missing_inplace deleting a mapping that holds a marker, with all its
\* entries.
_prune_missing_inplace_Whole(d) ==
    [x \in {y \in DOMAIN d :
               /\ ~IsMissing(d[y])
               /\ ~(IsDict(d[y]) /\ \E z \in DOMAIN d[y].m : IsMissing(d[y].m[z]))} |->
        IF IsDict(d[x]) /\ d[x].m # EmptyMap
        THEN Dict(_prune_missing_inplace(d[x].m))
        ELSE d[x]]

\* _prune_missing_inplace: d after the call.
_prune_missing_inplace(d) ==
    [x \in {y \in DOMAIN d : ~IsMissing(d[y])} |->
        IF IsDict(d[x]) /\ d[x].m # EmptyMap
        THEN Dict(_prune_missing_inplace(d[x].m))
        ELSE d[x]]

RECURSIVE LayerItems(_, _)
\* The pairs the two nested loops of _merge_layers run over, layer by layer,
\* each with the index of its layer.
LayerItems(ls, i) ==
    IF i > Len(ls)
    THEN <<>>
    ELSE LET items == _visit_dict(ls[i])
         IN  [j \in 1..Len(items) |->
                 [layer |-> i, node_path |-> items[j].node_path,
                  node_value |-> items[j].node_value]]
             \o LayerItems(ls, i + 1)

RECURSIVE MergeItems(_, _)
\* The fold of _merge_layers: _merge_node_path over the pairs, until one raises.
MergeItems(tree, items) ==
    IF items = <<>>
    THEN [tree |-> tree, raised |-> NoError]
    ELSE LET r == _merge_node_path(tree, Head(items).node_path, Head(items).node_value)
         IN  IF r.raised # NoError THEN r ELSE MergeItems(r.tree, Tail(items))

\* _merge_layers: the tree it returns and the error it raised.
_merge_layers(ls) ==
    IF ls = <<>>
    THEN [tree |-> EmptyMap, raised |-> ValueError]
    ELSE LET r == MergeItems(copy(Head(ls)), LayerItems(ls, 2))
         IN  IF r.raised # NoError
             THEN [tree |-> EmptyMap, raised |-> r.raised]
             ELSE [tree |-> _prune_missing_inplace(r.tree), raised |-> NoError]

-----------------------------------------------------------------------------
(* The layers _merge_layers is run on.                                     *)

\* A mapping that holds the marker, as an element of a list.
Marked == Dict([b |-> MISSING])

\* The lists: one element each, a scalar or, at the top level of a layer only,
\* the mapping that holds the marker.
Lists == {List(<<Scalar(x)>>) : x \in Scalars}
MarkedLists == {List(<<Marked>>)}

LeafValues == {Scalar(x) : x \in Scalars} \cup Lists \cup {MISSING}
SubMaps == UNION {[S -> LeafValues \cup {Dict(EmptyMap)}] : S \in SUBSET NestedKeys}
TopValues == LeafValues \cup MarkedLists \cup {Dict(f) : f \in SubMaps}
Trees == UNION {[S -> TopValues] : S \in SUBSET TopKeys}

RECURSIVE Entries(_)
\* The number of entries of a tree, at every depth.
Entries(d) ==
    LET RECURSIVE Sum(_)
        Sum(S) == IF S = {} THEN 0
                  ELSE LET x == CHOOSE y \in S : TRUE
                       IN  1 + (IF IsDict(d[x]) THEN Entries(d[x].m) ELSE 0) + Sum(S \ {x})
    IN  Sum(DOMAIN d)

\* The number of entries of each tree of the model.
EntriesOf == [t \in Trees |-> Entries(t)]

RECURSIVE TotalEntries(_)
\* The number of entries of a list of trees.
TotalEntries(ls) == IF ls = <<>> THEN 0 ELSE EntriesOf[Head(ls)] + TotalEntries(Tail(ls))

-----------------------------------------------------------------------------
(* _merge_layers, one iteration of its loops at a time.                    *)

NoItem == [layer |-> 0, node_path |-> <<>>, node_value |-> MISSING]

\* No call of the API has been made.
NoCall == [op |-> "none", cls |-> "", args |-> <<>>, err |-> "none", value |-> None]

ApiIdle ==
    /\ register = {}
    /\ defaults = EmptyMap
    /\ last = NoCall
    /\ latest = EmptyMap

MergeInit ==
    /\ layers = <<>>
    /\ current = EmptyMap
    /\ todo = <<>>
    /\ pc = "args"
    /\ applied = NoItem
    /\ raised = NoError
    /\ ApiIdle

\* The caller puts one more layer in the argument list.
MergeArg ==
    /\ pc = "args"
    /\ Len(layers) < MaxLayers
    /\ \E t \in Trees :
          /\ TotalEntries(layers) + EntriesOf[t] <= MaxEntries
          /\ layers' = Append(layers, t)
    /\ UNCHANGED <<current, todo, pc, applied, raised>>
    /\ UNCHANGED apiVars

\* head, *tail = layers; current = copy(head)
MergeStart ==
    /\ pc = "args"
    /\ IF layers = <<>>
       THEN /\ pc' = "error"
            /\ raised' = ValueError
            /\ UNCHANGED <<current, todo>>
       ELSE /\ pc' = "fold"
            /\ current' = copy(Head(layers))
            /\ todo' = LayerItems(layers, 2)
            /\ UNCHANGED raised
    /\ UNCHANGED <<layers, applied>>
    /\ UNCHANGED apiVars

\* One call of _merge_node_path(current, node_path, node_value).
MergeApply ==
    /\ pc = "fold"
    /\ todo # <<>>
    /\ LET r == _merge_node_path(current, Head(todo).node_path, Head(todo).node_value)
       IN  /\ current' = r.tree
           /\ raised' = r.raised
           /\ pc' = IF r.raised # NoError THEN "error" ELSE "fold"
    /\ applied' = Head(todo)
    /\ todo' = Tail(todo)
    /\ UNCHANGED layers
    /\ UNCHANGED apiVars

\* _prune_missing_inplace(current); return current
MergePrune ==
    /\ pc = "fold"
    /\ todo = <<>>
    /\ current' = _prune_missing_inplace(current)
    /\ pc' = "done"
    /\ UNCHANGED <<layers, todo, applied, raised>>
    /\ UNCHANGED apiVars

MergeNext == MergeArg \/ MergeStart \/ MergeApply \/ MergePrune

MergeSpec == MergeInit /\ [][MergeNext]_vars

\* The run of the loops returns what _merge_layers returns.
MergeAgrees ==
    /\ pc = "done" => _merge_layers(layers) = [tree |-> current, raised |-> NoError]
    /\ pc = "error" => _merge_layers(layers) = [tree |-> EmptyMap, raised |-> raised]

-----------------------------------------------------------------------------
(* The configclasses of the model, after those of src/tests/test_misc.py:  *)
(* a class with two fields of one configclass type, the second optional,   *)
(* a class with one required field and a class whose field has a default.  *)

Classes == {"Config", "WebServerConfig", "ConfigWithDefaults"}

\* fields(cls): the fields in declaration order; the default MISSING is a
\* field without default.
Fields ==
    [cls \in Classes |->
        CASE cls = "Config" ->
                <<[name |-> "web", type |-> "WebServerConfig", default |-> MISSING],
                  [name |-> "alt", type |-> "WebServerConfig", default |-> None]>>
          [] cls = "WebServerConfig" ->
                <<[name |-> "host", type |-> "scalar", default |-> MISSING]>>
          [] cls = "ConfigWithDefaults" ->
                <<[name |-> "host", type |-> "scalar", default |-> Scalar(0)]>>]

FieldNames(cls) == {Fields[cls][i].name : i \in 1..Len(Fields[cls])}
Field(cls, name) == Fields[cls][CHOOSE i \in 1..Len(Fields[cls]) : Fields[cls][i].name = name]

\* An instance of the dataclass cls: a node of kind cls with its fields in m.
Obj(cls, f) == [k |-> cls, v |-> <<>>, m |-> f]
IsObj(n) == n.k \in Classes

RECURSIVE deserialize(_, _)
\* apischema.deserialize(cls, tree, coerce=True): ok and the instance, or not
\* ok (a ValidationError): a key that is no field, a field without default
\* left out, a value that is not of the field's type.
deserialize(cls, tree) ==
    LET Given(name) == name \in DOMAIN tree
        Sub(name) == deserialize(Field(cls, name).type, tree[name].m)
        Valid(name) ==
            IF ~Given(name)
            THEN ~IsMissing(Field(cls, name).default)
            ELSE IF Field(cls, name).type = "scalar"
            THEN tree[name].k = "scalar"
            ELSE IsDict(tree[name]) /\ Sub(name).ok
        Value(name) ==
            IF ~Given(name)
            THEN Field(cls, name).default
            ELSE IF Field(cls, name).type = "scalar"
            THEN tree[name]
            ELSE Sub(name).value
    IN  IF DOMAIN tree \subseteq FieldNames(cls) /\ \A name \in FieldNames(cls) : Valid(name)
        THEN [ok |-> TRUE, value |-> Obj(cls, [name \in FieldNames(cls) |-> Value(name)])]
        ELSE [ok |-> FALSE, value |-> None]

RECURSIVE _visit_config(_)
RECURSIVE VisitValues(_)
\* `yield from _visit_config(value)` for each value of a sequence of values.
VisitValues(values) ==
    IF values = <<>>
    THEN <<>>
    ELSE _visit_config(Head(values)) \o VisitValues(Tail(values))

\* _visit_config: the instances it yields, in order.  The elements of the
\* lists of the model are no instances: it yields nothing for them.
_visit_config(obj) ==
    IF IsObj(obj)
    THEN (IF obj.k \in register THEN <<obj>> ELSE <<>>)
         \o VisitValues([i \in 1..Len(Fields[obj.k]) |-> obj.m[Fields[obj.k][i].name]])
    ELSE IF IsDict(obj)
    THEN VisitValues([i \in 1..Len(KeysOf(obj.m)) |-> obj.m[KeysOf(obj.m)[i]]])
    ELSE <<>>

-----------------------------------------------------------------------------
(* load_config.                                                            *)

\* The arguments after cls: a dict, or a callable that returns a dict, returns
\* a list of dicts or raises.
Literal(tree) == [callable |-> FALSE, returns |-> "dict", value |-> <<tree>>]
Loader(returns, trees) == [callable |-> TRUE, returns |-> returns, value |-> trees]

RECURSIVE Flatten(_, _)

\* Flatten with `layers[:0] = x` and `layers.insert(0, x)`: the layers of a
\* later argument come first.
Flatten_Reversed(args, cls) ==
    IF args = <<>>
    THEN [layers |-> <<>>, err |-> "none"]
    ELSE LET x == Head(args)
             rest == Flatten(Tail(args), cls)
         IN  IF x.callable /\ x.returns = "raise"
             THEN [layers |-> <<>>, err |-> "LoaderError"]
             ELSE IF rest.err # "none"
             THEN rest
             ELSE [layers |-> rest.layers \o x.value, err |-> "none"]

\* The layers load_config builds from args: x(cls) for a callable x, then
\* extend for a list and append for a dict.
Flatten(args, cls) ==
    IF args = <<>>
    THEN [layers |-> <<>>, err |-> "none"]
    ELSE LET x == Head(args)
             rest == Flatten(Tail(args), cls)
         IN  IF x.callable /\ x.returns = "raise"
             THEN [layers |-> <<>>, err |-> "LoaderError"]
             ELSE IF rest.err # "none"
             THEN rest
             ELSE [layers |-> x.value \o rest.layers, err |-> "none"]

RECURSIVE SetDefaults(_, _)

\* SetDefaults with `defaults.setdefault(type(node), node)` within one load:
\* the first instance of a type stays.
SetDefaults_FirstStays(defs, nodes) ==
    IF nodes = <<>>
    THEN defs
    ELSE LET node == Head(nodes)
             rest == SetDefaults(defs, Tail(nodes))
         IN  Put(rest, node.k, node)

\* for node in _visit_config(config): defaults[type(node)] = node
SetDefaults(defs, nodes) ==
    IF nodes = <<>>
    THEN defs
    ELSE SetDefaults(Put(defs, Head(nodes).k, Head(nodes)), Tail(nodes))

\* What a call of load_config that raised err leaves and returns.
Failed(err, defs, ls, merged) ==
    [err |-> err, value |-> None, defaults |-> defs, layers |-> ls,
     merged |-> merged.tree, raised |-> merged.raised]

NotMerged == [tree |-> EmptyMap, raised |-> NoError]

\* load_config from `for node in _visit_config(config)` on, config being what
\* deserialize returned or raised.
AfterDeserialize(defs, flat, merged, config) ==
    IF ~config.ok
    THEN Failed("ValidationError", defs, flat.layers, merged)
    ELSE [err |-> "none", value |-> config.value,
          defaults |-> SetDefaults(defs, _visit_config(config.value)),
          layers |-> flat.layers, merged |-> merged.tree, raised |-> NoError]

\* load_config from `deserialize(cls, ..., coerce=True)` on, merged being what
\* _merge_layers returned or raised.
AfterMerge(cls, defs, flat, merged) ==
    IF merged.raised # NoError
    THEN Failed(merged.raised.err, defs, flat.layers, merged)
    ELSE AfterDeserialize(defs, flat, merged, deserialize(cls, merged.tree))

\* load_config from `_merge_layers(*layers)` on, flat being the layers built
\* or the error of the callable that raised.
AfterFlatten(cls, defs, flat) ==
    IF flat.err # "none"
    THEN Failed(flat.err, defs, <<>>, NotMerged)
    ELSE AfterMerge(cls, defs, flat, _merge_layers(flat.layers))

\* load_config with `defaults.clear()` before the load.
load_config_ClearsFirst(cls, args) ==
    IF cls \notin register
    THEN Failed("ValueError", EmptyMap, <<>>, NotMerged)
    ELSE AfterFlatten(cls, EmptyMap, Flatten(args, cls))

\* load_config(cls, *args): the error it raised, the config it returned, the
\* defaults after it, and the call of _merge_layers it made.
load_config(cls, args) ==
    IF cls \notin register
    THEN Failed("ValueError", defaults, <<>>, NotMerged)
    ELSE AfterFlatten(cls, defaults, Flatten(args, cls))

\* get_default_config(cls): defaults[cls], or the KeyError.
get_default_config(cls) ==
    IF cls \in DOMAIN defaults
    THEN [err |-> "none", value |-> defaults[cls]]
    ELSE [err |-> "KeyError", value |-> None]

-----------------------------------------------------------------------------
(* The calls of the API.                                                   *)

MaxArgs == 2

Host(x) == [host |-> x]
Args ==
    { Literal(EmptyMap),
      Literal([web |-> Dict(Host(Scalar(1)))]),
      Literal([web |-> Dict(Host(List(<<Scalar(1)>>)))]),
      Loader("list", <<[web |-> Dict(Host(Scalar(2)))], [alt |-> Dict(Host(Scalar(1)))]>>),
      Loader("dict", <<Host(Scalar(2))>>),
      Loader("list", <<>>),
      Loader("raise", <<>>) }

ArgLists == UNION {[1..n -> Args] : n \in 0..MaxArgs}

RECURSIVE Instances(_)
\* The instances in the object graph of obj.
Instances(obj) ==
    IF IsObj(obj)
    THEN {obj} \cup UNION {Instances(obj.m[name]) : name \in DOMAIN obj.m}
    ELSE {}

\* The configclasses with an instance in the object graph of obj.
TypesIn(obj) == {o.k : o \in Instances(obj)} \cap register

\* The state after `import configman`.
Init ==
    /\ layers = <<>>
    /\ current = EmptyMap
    /\ todo = <<>>
    /\ pc = "api"
    /\ applied = NoItem
    /\ raised = NoError
    /\ register = {}
    /\ defaults = EmptyMap
    /\ last = NoCall
    /\ latest = EmptyMap

\* configclass(cls)
ConfigClass ==
    /\ last = NoCall
    /\ \E cls \in Classes :
          /\ register' = register \cup {cls}
          /\ last' = [NoCall EXCEPT !.op = "configclass", !.cls = cls]
    /\ UNCHANGED <<defaults, latest>>
    /\ UNCHANGED mergeVars

\* The state after a call of load_config that did r.
LoadConfigDid(cls, args, r) ==
    /\ defaults' = r.defaults
    /\ last' = [op |-> "load_config", cls |-> cls, args |-> args,
                err |-> r.err, value |-> r.value]
    /\ layers' = r.layers
    /\ current' = r.merged
    /\ raised' = r.raised
    /\ latest' = IF r.err = "none"
                 THEN [t \in DOMAIN latest \cup TypesIn(r.value) |->
                          IF t \in TypesIn(r.value) THEN r.value ELSE latest[t]]
                 ELSE latest

\* load_config(cls, *args)
LoadConfig ==
    /\ last = NoCall
    /\ \E cls \in Classes, args \in ArgLists :
          LoadConfigDid(cls, args, load_config(cls, args))
    /\ UNCHANGED <<register, todo, pc, applied>>

\* The state after a call of get_default_config that did r.
GetDefaultConfigDid(cls, r) ==
    last' = [NoCall EXCEPT !.op = "get_default_config", !.cls = cls,
                           !.err = r.err, !.value = r.value]

\* get_default_config(cls)
GetDefaultConfig ==
    /\ last = NoCall
    /\ \E cls \in Classes : GetDefaultConfigDid(cls, get_default_config(cls))
    /\ UNCHANGED <<register, defaults, latest>>
    /\ UNCHANGED mergeVars

\* reset()
Reset ==
    /\ last = NoCall
    /\ defaults' = EmptyMap
    /\ latest' = EmptyMap
    /\ last' = [NoCall EXCEPT !.op = "reset"]
    /\ UNCHANGED register
    /\ UNCHANGED mergeVars

\* The caller has what the call returned or raised and goes on.
Return ==
    /\ last # NoCall
    /\ last' = NoCall
    /\ layers' = <<>>
    /\ current' = EmptyMap
    /\ raised' = NoError
    /\ UNCHANGED <<register, defaults, latest, todo, pc, applied>>

Next == ConfigClass \/ LoadConfig \/ GetDefaultConfig \/ Reset \/ Return

Spec == Init /\ [][Next]_vars

-----------------------------------------------------------------------------
(* C1 *)

\* C1: a call of load_config that raises leaves the registry of defaults as it
\* was before the call.
C1_FailedLoadKeepsDefaults ==
    [][(last'.op = "load_config" /\ last'.err # "none") => defaults' = defaults]_vars

\* C1 witness: the deserialization failed with defaults registered before.
C1_Witness ==
    /\ last.op = "load_config"
    /\ last.err = "ValidationError"
    /\ DOMAIN defaults = {"Config", "WebServerConfig"}

\* C1 witnesses of the other failures, each with defaults registered before:
\* an unregistered class, no layer at all, a callable that raised, a type
\* conflict in the merge.
C1_WitnessUnregistered ==
    /\ last.op = "load_config" /\ last.err = "ValueError" /\ last.cls \notin register
    /\ defaults # EmptyMap

C1_WitnessNoLayers ==
    /\ last.op = "load_config" /\ last.err = "ValueError" /\ last.cls \in register
    /\ defaults # EmptyMap

C1_WitnessLoaderRaised ==
    /\ last.op = "load_config" /\ last.err = "LoaderError"
    /\ defaults # EmptyMap

C1_WitnessTypeConflict ==
    /\ last.op = "load_config" /\ last.err = "TypeError"
    /\ raised = TypeError(<<"web", "host">>)
    /\ defaults # EmptyMap

-----------------------------------------------------------------------------
(* C2 *)

\* The instance of type cls that _visit_config visits last in config.
LastVisited(cls, config) ==
    LET visited == SelectSeq(_visit_config(config), LAMBDA o : o.k = cls)
    IN  visited[Len(visited)]

\* C2: get_default_config(T) returns the instance of T visited last in the
\* config of the most recent load_config since the last reset() whose object
\* graph holds an instance of T, and raises the KeyError when there is no such
\* load, as for every T right after reset().
C2_DefaultIsLastVisited ==
    /\ \A cls \in Classes :
          IF cls \in DOMAIN latest
          THEN get_default_config(cls) =
                   [err |-> "none", value |-> LastVisited(cls, latest[cls])]
          ELSE get_default_config(cls).err = "KeyError"
    /\ last.op = "reset" => \A cls \in Classes : get_default_config(cls).err = "KeyError"
    /\ last.op = "get_default_config" /\ last.err = "none" =>
          last.value = LastVisited(last.cls, latest[last.cls])

\* C2 witness: get_default_config(WebServerConfig) returned the second of two
\* different instances of one load, and a load of another class came since
\* the last reset() too.
C2_Witness ==
    /\ last.op = "get_default_config"
    /\ last.cls = "WebServerConfig"
    /\ last.err = "none"
    /\ latest["WebServerConfig"].k = "Config"
    /\ last.value = latest["WebServerConfig"].m["alt"]
    /\ last.value # latest["WebServerConfig"].m["web"]
    /\ "ConfigWithDefaults" \in DOMAIN latest

\* C2 witness of reset(): get_default_config raised for a class loaded before.
C2_WitnessAfterReset ==
    /\ last.op = "get_default_config"
    /\ last.err = "KeyError"
    /\ last.cls \in register
    /\ defaults = EmptyMap

-----------------------------------------------------------------------------
(* C8 *)

\* The layers an argument stands for: the dict, the dict its call returns, or
\* the elements of the list its call returns.
Contribution(x) == IF x.callable /\ x.returns = "list" THEN x.value ELSE <<x.value[1]>>

RECURSIVE InOrder(_, _)
\* The contributions of the first n arguments, one after the other.
InOrder(args, n) ==
    IF n = 0 THEN <<>> ELSE InOrder(args, n - 1) \o Contribution(args[n])

\* load_config got past the calls of its callables.
Flattened ==
    /\ last.op = "load_config"
    /\ last.cls \in register
    /\ last.err # "LoaderError"

\* C8: the layers load_config merges are the contributions of its arguments
\* in argument order, each list in its own order, and the tree it deserializes
\* is _merge_layers of exactly those.
C8_LayersInArgumentOrder ==
    Flattened =>
        /\ layers = InOrder(last.args, Len(last.args))
        /\ [tree |-> current, raised |-> raised]
               = _merge_layers(InOrder(last.args, Len(last.args)))
        /\ last.err = "none" => last.value = deserialize(last.cls, current).value

\* C8 witness: a callable that returned two layers, then a dict that overrides
\* the first of them.
C8_Witness ==
    /\ Flattened
    /\ last.err = "none"
    /\ Len(last.args) = 2
    /\ last.args[1].callable /\ last.args[1].returns = "list"
    /\ ~last.args[2].callable
    /\ Len(layers) = 3
    /\ At(layers[1], <<"web", "host">>) = Scalar(2)
    /\ At(current, <<"web", "host">>) = Scalar(1)
    /\ At(current, <<"alt", "host">>) = Scalar(1)

-----------------------------------------------------------------------------
(* Vocabulary of the claims about _merge_layers.                           *)

\* The paths of the trees of the model.
Paths == {<<x>> : x \in TopKeys} \cup {<<x, y>> : x \in TopKeys, y \in NestedKeys}

\* layer holds a node of kind at path.
Holds(layer, path, kind) == HasPath(layer, path) /\ At(layer, path).k = kind

ProperPrefixes(path) == {SubSeq(path, 1, n) : n \in 1..(Len(path) - 1)}

\* layer holds a scalar or a list at a proper prefix of path: merging it
\* replaces the mapping that path runs through.
Clobbers(layer, path) ==
    \E q \in ProperPrefixes(path) : Holds(layer, q, "scalar") \/ Holds(layer, q, "list")

\* What the layers before layer i merge to.
Earlier(i) == _merge_layers(SubSeq(layers, 1, i - 1))

\* _merge_layers returned `current`.
Returned == pc = "done"

-----------------------------------------------------------------------------
(* C3 *)

C3_WitnessListThenScalar ==
    /\ Returned
    /\ Len(layers) = 2
    /\ Holds(layers[1], <<"a", "b">>, "list")
    /\ Holds(layers[2], <<"a", "b">>, "scalar")

-----------------------------------------------------------------------------
(* C4 *)

\* Layer i holds the marker at path and no later layer has an entry at path
\* (so none has one below it either).
MarkerStands(i, path) ==
    /\ Holds(layers[i], path, "missing")
    /\ \A j \in (i + 1)..Len(layers) : ~HasPath(layers[j], path)

\* C4 as stated: a marker at a path that no later layer mentions leaves no
\* entry at that path in the returned tree, whatever the earlier layers held.
C4_MarkerRemoves ==
    Returned =>
        \A i \in 1..Len(layers), path \in Paths :
            MarkerStands(i, path) => ~HasPath(current, path)

\* C4, amended.  A marker at a path that no later layer mentions leaves no
\* entry at that path in the returned tree when the marker is in the first
\* layer or the earlier layers merge to a tree with no entry at that path.
C4_MarkerLeavesNothing ==
    Returned =>
        \A i \in 1..Len(layers), path \in Paths :
            /\ MarkerStands(i, path)
            /\ i = 1 \/ ~HasPath(Earlier(i).tree, path)
            => ~HasPath(current, path)

\* C4 witness: the first layer holds the marker beside a sibling, later layers
\* write elsewhere, and the merge returned.
C4_Witness ==
    /\ Returned
    /\ Len(layers) = 2
    /\ MarkerStands(1, <<"a", "b">>)
    /\ Holds(layers[1], <<"a", "c">>, "scalar")
    /\ Holds(layers[2], <<"a", "c">>, "scalar")

-----------------------------------------------------------------------------
(* C5 *)

\* The earlier layers merge to a tree with a value at path, layer i holds the
\* marker at path, and no later layer has an entry at path.
MarkerOverValue(i, path) ==
    /\ i > 1
    /\ HasPath(Earlier(i).tree, path)
    /\ MarkerStands(i, path)

\* C5 as stated: the value the earlier layers established at the path is the
\* value of the returned tree at the path.
C5_MarkerKeepsValue ==
    Returned =>
        \A i \in 1..Len(layers), path \in Paths :
            MarkerOverValue(i, path) =>
                HasPath(current, path) /\ At(current, path) = At(Earlier(i).tree, path)

\* C5, amended.  The same, when no later layer holds a scalar or a list at a
\* proper prefix of the path either.
C5_MarkerKeepsUnclobberedValue ==
    Returned =>
        \A i \in 1..Len(layers), path \in Paths :
            /\ MarkerOverValue(i, path)
            /\ \A j \in (i + 1)..Len(layers) : ~Clobbers(layers[j], path)
            => HasPath(current, path) /\ At(current, path) = At(Earlier(i).tree, path)

\* C5 witness: two layers build a sub-mapping, the third holds the marker at it.
C5_Witness ==
    /\ Returned
    /\ Len(layers) = 3
    /\ MarkerOverValue(3, <<"a">>)
    /\ Holds(layers[1], <<"a", "b">>, "scalar")
    /\ Holds(layers[2], <<"a", "c">>, "list")
    /\ Holds(current, <<"a", "b">>, "scalar")

-----------------------------------------------------------------------------
(* C6 *)

RECURSIVE Concatenation(_, _)
\* The lists the layers from i on hold at path, one after the other.
Concatenation(i, path) ==
    IF i > Len(layers)
    THEN <<>>
    ELSE (IF Holds(layers[i], path, "list") THEN At(layers[i], path).v ELSE <<>>)
         \o Concatenation(i + 1, path)

\* Some layer mentions path and every layer that does holds a list there.
OnlyLists(path) ==
    /\ \E i \in 1..Len(layers) : HasPath(layers[i], path)
    /\ \A i \in 1..Len(layers) : HasPath(layers[i], path) => Holds(layers[i], path, "list")

\* C6 as stated: where every layer that mentions the path holds a list, the
\* returned tree holds the concatenation of those lists in layer order.
C6_ListsConcatenate ==
    Returned =>
        \A path \in Paths :
            OnlyLists(path) =>
                HasPath(current, path) /\ At(current, path) = List(Concatenation(1, path))

\* C6, amended.  The same, when no layer after one that holds the list holds a
\* scalar or a list at a proper prefix of the path.
C6_UnclobberedListsConcatenate ==
    Returned =>
        \A path \in Paths :
            /\ OnlyLists(path)
            /\ \A i \in 1..Len(layers), j \in 1..Len(layers) :
                  i < j /\ HasPath(layers[i], path) => ~Clobbers(layers[j], path)
            => HasPath(current, path) /\ At(current, path) = List(Concatenation(1, path))

\* C6 witness: three layers hold a list at the same path, two of them the same
\* element.
C6_Witness ==
    /\ Returned
    /\ Len(layers) = 3
    /\ OnlyLists(<<"a">>)
    /\ At(current, <<"a">>) = List(<<Scalar(1), Scalar(2), Scalar(1)>>)

\* C6 witness at a nested path: the same element twice.
C6_WitnessNested ==
    /\ Returned
    /\ OnlyLists(<<"a", "b">>)
    /\ Holds(current, <<"a", "b">>, "list")
    /\ At(current, <<"a", "b">>) = List(<<Scalar(2), Scalar(2)>>)

-----------------------------------------------------------------------------
(* C7 *)

\* merge_layers([merge_layers([A, B]), C]) for the three layers A, B, C.
Regrouped ==
    LET ab == _merge_layers(SubSeq(layers, 1, 2))
    IN  IF ab.raised # NoError THEN ab ELSE _merge_layers(<<ab.tree, layers[3]>>)

\* C7: for three layers, when merging all three returns and merging the first
\* two and then the result with the third returns, both return the same tree.
C7_Associative ==
    Returned /\ Len(layers) = 3 /\ Regrouped.raised = NoError
        => Regrouped.tree = current

\* C7 witness: three layers with a marker in the first, a nested list in the
\* second and a nested scalar in the third, merged both ways.
C7_Witness ==
    /\ Returned
    /\ Len(layers) = 3
    /\ Regrouped.raised = NoError
    /\ Holds(layers[1], <<"a">>, "missing")
    /\ Holds(layers[2], <<"a", "c">>, "list")
    /\ Holds(layers[3], <<"a", "b">>, "scalar")
    /\ Holds(current, <<"a", "c">>, "list")

-----------------------------------------------------------------------------
(* C9 *)

\* C9 as stated: a step that applies a marker of a non-first layer leaves the
\* accumulator as it was.
C9_MarkerLeavesAccumulator ==
    [][(pc = "fold" /\ todo # <<>> /\ IsMissing(Head(todo).node_value))
          => current' = current]_vars

-----------------------------------------------------------------------------
(* C10 *)

RECURSIVE Without(_, _)
\* tree without its entry at path.
Without(tree, path) ==
    IF Len(path) = 1
    THEN Del(tree, Head(path))
    ELSE Put(tree, Head(path), Dict(Without(tree[Head(path)].m, Tail(path))))

\* Layer i is not the first and holds an empty mapping at path.
EmptyMappingAt(i, path) ==
    /\ i > 1
    /\ HasPath(layers[i], path)
    /\ At(layers[i], path) = Dict(EmptyMap)

\* C10 as stated: an empty mapping at a path in a non-first layer, with no
\* later layer mentioning the path or holding a leaf above it, is what the
\* returned tree holds at the path.
C10_EmptyMappingOverwrites ==
    Returned =>
        \A i \in 1..Len(layers), path \in Paths :
            /\ EmptyMappingAt(i, path)
            /\ \A j \in (i + 1)..Len(layers) :
                  ~HasPath(layers[j], path) /\ ~Clobbers(layers[j], path)
            => HasPath(current, path) /\ At(current, path) = Dict(EmptyMap)

\* C10, amended.  An empty mapping in a non-first layer is no leaf: the
\* traversal yields nothing for it, and the merge returns or raises what it
\* does for the same layers with that entry taken out.
C10_EmptyMappingIgnored ==
    pc \in {"done", "error"} =>
        \A i \in 1..Len(layers), path \in Paths :
            EmptyMappingAt(i, path) =>
                _merge_layers([layers EXCEPT ![i] = Without(layers[i], path)])
                    = [tree |-> IF Returned THEN current ELSE EmptyMap, raised |-> raised]

\* C10 witness: a scalar at a nested path, then an empty mapping there, and the
\* returned tree still holds the scalar.
C10_Witness ==
    /\ Returned
    /\ Len(layers) = 2
    /\ Holds(layers[1], <<"a", "b">>, "scalar")
    /\ EmptyMappingAt(2, <<"a", "b">>)
    /\ Holds(current, <<"a", "b">>, "scalar")

-----------------------------------------------------------------------------
(* C11 *)

RECURSIVE MarkerIn(_)
\* n holds, at some depth, a mapping entry whose value is the marker.
MarkerIn(n) ==
    IF IsDict(n)
    THEN \E x \in DOMAIN n.m : IsMissing(n.m[x]) \/ MarkerIn(n.m[x])
    ELSE IF IsList(n)
    THEN \E i \in 1..Len(n.v) : MarkerIn(n.v[i])
    ELSE FALSE

RECURSIVE MarkerUnderMappings(_)
\* n holds a mapping entry whose value is the marker, reached through mappings
\* alone.
MarkerUnderMappings(n) ==
    /\ IsDict(n)
    /\ \E x \in DOMAIN n.m : IsMissing(n.m[x]) \/ MarkerUnderMappings(n.m[x])

\* Every entry of before that is no marker is an entry of after, a mapping
\* where it was one and the same leaf otherwise, and after has no other entry.
Kept(before, after) ==
    \A path \in Paths :
        /\ HasPath(after, path) <=>
               HasPath(before, path) /\ ~IsMissing(At(before, path))
        /\ HasPath(after, path) =>
               IF IsDict(At(before, path))
               THEN IsDict(At(after, path))
               ELSE At(after, path) = At(before, path)

\* The step of _merge_layers from the folded accumulator to the returned tree.
Pruned == pc = "fold" /\ pc' = "done"

\* C11 as stated: the tree _merge_layers returns holds no mapping entry whose
\* value is the marker, at any depth, and keeps every entry of the folded
\* accumulator that is no marker.
C11_NoMarkerReturned ==
    [][Pruned => ~MarkerIn(Dict(current')) /\ Kept(current, current')]_vars

\* C11 for the mappings that are reached through mappings alone: the returned
\* tree holds no marker there and keeps every other entry.  What is left out
\* are the mappings that are elements of a list.
C11_NoMarkerUnderMappings ==
    [][Pruned => ~MarkerUnderMappings(Dict(current')) /\ Kept(current, current')]_vars

\* C11 witness: the folded accumulator held the marker at a nested path beside
\* a scalar; the returned tree holds the scalar and no marker.
C11_Witness ==
    /\ Returned
    /\ Len(layers) = 2
    /\ Holds(layers[1], <<"a", "b">>, "missing")
    /\ Holds(layers[2], <<"a", "c">>, "scalar")
    /\ ~HasPath(current, <<"a", "b">>)
    /\ Holds(current, <<"a", "c">>, "scalar")
    /\ ~MarkerIn(Dict(current))

\* C11 witness of the marker that is returned: a later layer appended a
\* mapping that holds the marker to a list.
C11_WitnessMarkerInList ==
    /\ Returned
    /\ Len(layers) = 2
    /\ Holds(layers[1], <<"a">>, "list")
    /\ Holds(layers[2], <<"a">>, "list")
    /\ At(layers[2], <<"a">>) = List(<<Marked>>)
    /\ MarkerIn(Dict(current))

====
